---- MODULE Spec2Model ----
(***************************************************************************)
(* A model of hafas2gtfs.py: the converter Hafas2GTFS reads the HAFAS      *)
(* files eckdaten, bitfeld, bfkoord, bahnhof and fplan in that order and   *)
(* appends rows to the seven GTFS tables.                                  *)
(*                                                                         *)
(* Modelling conventions                                                   *)
(*  - A piece of input text is a sequence of one-character strings, so     *)
(*    that strip(), int() and the hex decoding are computed as the code    *)
(*    computes them.  An input line is a record of its fixed-column slices.*)
(*  - A Python value is a pair <<type, text>>: <<"int","1">> is the        *)
(*    integer 1, <<"str","1">> the string '1', <<"none","">> is None.      *)
(*    Two values are the same dict key iff the pairs are equal; the text   *)
(*    is what str() and the csv writer produce.                            *)
(*  - A dict is a function from its keys to Python values.                 *)
(*  - A date is the number of days since 01.01.2020.                       *)
(*  - An uncaught exception ends the run: pc = "aborted", err = its type.  *)
(***************************************************************************)
EXTENDS Integers, Sequences, FiniteSets, TLC

VARIABLES
  pc,             \* the position of create(): which file is being read
  err,            \* the uncaught exception that ended the run, or ""
  files,          \* self.files: table name -> the rows written so far
  agency_id,      \* self.agency_id
  start,          \* self.start (days since 01.01.2020; -1: not set)
  end,            \* self.end
  bitfeld,        \* the bitfeld file as read so far: service id -> the
                  \* hex text of the last line read for that id
  services,       \* self.services: service id -> sequence of bits
  route_counter,  \* self.route_counter
  routes,         \* self.routes: the set of keys of the dict
  stops,          \* self.stops: stop id -> dict
  projection,     \* the projection name self.projector was made from
  state,          \* parse_fplan's local state
  meta,           \* parse_fplan's local meta
  stop_sequence,  \* parse_fplan's local stop_sequence (-1: unbound)
  route_id,       \* parse_fplan's local route_id
  trip_id,        \* parse_fplan's local trip_id
  prev,           \* the fplan file as read so far: the kind of its last
                  \* line that is no comment ("none", "meta" or "data")
  commented       \* the fplan file as read so far: its last line is a
                  \* comment

vars == <<pc, err, files, agency_id, start, end, bitfeld, services,
          route_counter, routes, stops, projection, state, meta,
          stop_sequence, route_id, trip_id, prev, commented>>

(***************************************************************************)
(* Bounds of the model.                                                    *)
(***************************************************************************)
\* the longest period explored is MaxSpan + 1 days
MaxSpan == 5
\* hex payloads of every length up to MaxHexLen over HexAlphabet
MaxHexLen == 2
\* trips rows written in one run
MaxTrips == 2
\* stop_times rows written in one run
MaxStopTimes == 2

(***************************************************************************)
(* Text.                                                                   *)
(***************************************************************************)
DigitChars == <<"0", "1", "2", "3", "4", "5", "6", "7", "8", "9">>

HexChars == <<"0", "1", "2", "3", "4", "5", "6", "7", "8", "9",
              "A", "B", "C", "D", "E", "F">>

IsDigit(c) == \E d \in 1..10 : DigitChars[d] = c

DigitVal(c) == (CHOOSE d \in 1..10 : DigitChars[d] = c) - 1

IsHex(c) == \E d \in 1..16 : HexChars[d] = c

HexVal(c) == (CHOOSE d \in 1..16 : HexChars[d] = c) - 1

RECURSIVE Join(_)
\* ''.join(chars): the text as one string
Join(s) == IF s = <<>> THEN "" ELSE Head(s) \o Join(Tail(s))

RECURSIVE LStrip(_)
LStrip(s) == IF s # <<>> /\ Head(s) = " " THEN LStrip(Tail(s)) ELSE s

RECURSIVE RStrip(_)
RStrip(s) ==
  IF s # <<>> /\ s[Len(s)] = " " THEN RStrip(SubSeq(s, 1, Len(s) - 1)) ELSE s

\* str.strip()
Strip(s) == RStrip(LStrip(s))

RECURSIVE DigitsVal(_)
DigitsVal(s) ==
  IF s = <<>> THEN 0
  ELSE 10 * DigitsVal(SubSeq(s, 1, Len(s) - 1)) + DigitVal(s[Len(s)])

\* int(text) succeeds: surrounding blanks are ignored, the rest is digits
IntOk(s) == Strip(s) # <<>> /\ \A i \in 1..Len(Strip(s)) : IsDigit(Strip(s)[i])

\* int(text)
IntOf(s) == DigitsVal(Strip(s))

RECURSIVE StrOfNat(_)
\* str(n) for n >= 0
StrOfNat(n) ==
  IF n < 10 THEN DigitChars[n + 1]
  ELSE StrOfNat(n \div 10) \o DigitChars[(n % 10) + 1]

\* str(n).zfill(2)
ZFill2(n) == IF n < 10 THEN "0" \o StrOfNat(n) ELSE StrOfNat(n)

(***************************************************************************)
(* Python values.                                                          *)
(***************************************************************************)
None == <<"none", "">>

PyInt(n) == <<"int", StrOfNat(n)>>

PyStr(s) == <<"str", s>>

\* bool(v) is False
Falsy(v) == v = None \/ v = PyStr("") \/ v = PyInt(0)

\* what the csv writer puts in the cell: None is written empty
Csv(v) == v[2]

\* dict.get(key, default)
Get(d, key, default) == IF key \in DOMAIN d THEN d[key] ELSE default

\* dict.update(other)
Update(d, other) ==
  [k \in DOMAIN d \cup DOMAIN other |->
     IF k \in DOMAIN other THEN other[k] ELSE d[k]]

EmptyDict == [k \in {} |-> None]

True == <<"bool", "True">>

\* float(text) of a field of digits, as the float's str()
PyFloat(n) == <<"float", StrOfNat(n) \o ".0">>

(***************************************************************************)
(* Dates: datetime.strptime(text, '%d.%m.%Y'), date + timedelta(days=i),   *)
(* date.strftime('%Y%m%d').                                                *)
(***************************************************************************)
IsLeap(y) == (y % 4 = 0 /\ y % 100 # 0) \/ y % 400 = 0

DaysInMonth(y, m) ==
  IF m = 2 THEN (IF IsLeap(y) THEN 29 ELSE 28)
  ELSE IF m \in {4, 6, 9, 11} THEN 30 ELSE 31

DaysInYear(y) == IF IsLeap(y) THEN 366 ELSE 365

RECURSIVE DaysBeforeMonth(_, _)
DaysBeforeMonth(y, m) ==
  IF m = 1 THEN 0 ELSE DaysBeforeMonth(y, m - 1) + DaysInMonth(y, m - 1)

RECURSIVE DaysBeforeYear(_)
\* days from 01.01.2020 to 01.01.y, y >= 2020
DaysBeforeYear(y) ==
  IF y <= 2020 THEN 0 ELSE DaysBeforeYear(y - 1) + DaysInYear(y - 1)

\* the text is a date of the form DD.MM.YYYY (years from 2020 are modelled)
DateOk(t) ==
  /\ Len(t) = 10
  /\ t[3] = "." /\ t[6] = "."
  /\ \A i \in {1, 2, 4, 5, 7, 8, 9, 10} : IsDigit(t[i])
  /\ LET d == DigitsVal(SubSeq(t, 1, 2))
         m == DigitsVal(SubSeq(t, 4, 5))
         y == DigitsVal(SubSeq(t, 7, 10))
     IN  /\ y >= 2020
         /\ m \in 1..12
         /\ d \in 1..DaysInMonth(y, m)

\* strptime: the date as days since 01.01.2020
ParseDate(t) ==
  LET d == DigitsVal(SubSeq(t, 1, 2))
      m == DigitsVal(SubSeq(t, 4, 5))
      y == DigitsVal(SubSeq(t, 7, 10))
  IN  DaysBeforeYear(y) + DaysBeforeMonth(y, m) + (d - 1)

RECURSIVE YearOf(_, _)
YearOf(n, y) == IF n < DaysInYear(y) THEN y ELSE YearOf(n - DaysInYear(y), y + 1)

RECURSIVE MonthOf(_, _, _)
MonthOf(n, y, m) ==
  IF n < DaysInMonth(y, m) THEN m ELSE MonthOf(n - DaysInMonth(y, m), y, m + 1)

\* strftime('%Y%m%d') of the date n days after 01.01.2020
FormatYMD(n) ==
  LET y == YearOf(n, 2020)
      r == n - DaysBeforeYear(y)
      m == MonthOf(r, y, 1)
      d == r - DaysBeforeMonth(y, m) + 1
  IN  StrOfNat(y) \o ZFill2(m) \o ZFill2(d)

(***************************************************************************)
(* Bits(hex=text) and the slice of a sequence.                             *)
(***************************************************************************)
\* the four bits of one hex digit, most significant first
Nibble(c) ==
  LET v == HexVal(c)
  IN  <<v \div 8 = 1, (v \div 4) % 2 = 1, (v \div 2) % 2 = 1, v % 2 = 1>>

RECURSIVE Bits(_)
\* Bits(hex=text): four bits per digit
Bits(h) == IF h = <<>> THEN <<>> ELSE Nibble(Head(h)) \o Bits(Tail(h))

\* Bits(hex=text) accepts the text
HexOk(h) == \A i \in 1..Len(h) : IsHex(h[i])

\* s[a:b]: a negative index counts from the end, both are clipped
PySlice(s, a, b) ==
  LET n  == Len(s)
      a1 == IF a < 0 THEN a + n ELSE a
      b1 == IF b < 0 THEN b + n ELSE b
      lo == IF a1 < 0 THEN 0 ELSE IF a1 > n THEN n ELSE a1
      hi == IF b1 < 0 THEN 0 ELSE IF b1 > n THEN n ELSE b1
  IN  IF lo < hi THEN SubSeq(s, lo + 1, hi) ELSE <<>>

(***************************************************************************)
(* The tables.  A row is the dict handed to writerow.                      *)
(***************************************************************************)
Tables == {"agency", "routes", "trips", "stop_times", "stops", "calendar",
           "calendar_dates"}

\* self.files[table].writerow(row)
WriteRow(f, table, row) == [f EXCEPT ![table] = Append(@, row)]

\* the rows appended to one table, in order
WriteRows(f, table, rows) == [f EXCEPT ![table] = @ \o rows]

\* an uncaught exception leaves create()
Abort(e) == pc' = "aborted" /\ err' = e

\* the orders in which a dict with these keys may be iterated
Orders(keys) ==
  {o \in [1..Cardinality(keys) -> keys] :
     \A i, j \in 1..Cardinality(keys) : o[i] = o[j] => i = j}

RECURSIVE Concat(_)
\* the sequences of a sequence, one after the other
Concat(ss) == IF ss = <<>> THEN <<>> ELSE Head(ss) \o Concat(Tail(ss))

\* [x for x in s if keep(x)], by index
RECURSIVE SelectIdx(_, _)
SelectIdx(s, n) ==
  IF n = 0 THEN <<>>
  ELSE SelectIdx(s, n - 1) \o (IF s[n] THEN <<n - 1>> ELSE <<>>)

(***************************************************************************)
(* Construction and the start of create().                                 *)
(***************************************************************************)
Init ==
  /\ pc = "create"
  /\ err = ""
  /\ files = [t \in Tables |-> <<>>]
  /\ agency_id = None
  /\ start = -1
  /\ end = -1
  /\ bitfeld = EmptyDict
  /\ services = EmptyDict
  /\ route_counter = 0
  /\ routes = {}
  /\ stops = EmptyDict
  /\ projection = None
  /\ state = "meta"
  /\ meta = EmptyDict
  /\ stop_sequence = -1
  /\ route_id = None
  /\ trip_id = None
  /\ prev = "none"
  /\ commented = FALSE

fplan_locals ==
  <<state, meta, stop_sequence, route_id, trip_id, prev, commented>>

\* the state before the converter is constructed
Start ==
  /\ pc = "new"
  /\ err = ""
  /\ files = [t \in Tables |-> <<>>]
  /\ agency_id = None
  /\ start = -1
  /\ end = -1
  /\ bitfeld = EmptyDict
  /\ services = EmptyDict
  /\ route_counter = 0
  /\ routes = {}
  /\ stops = EmptyDict
  /\ projection = None
  /\ state = "meta"
  /\ meta = EmptyDict
  /\ stop_sequence = -1
  /\ route_id = None
  /\ trip_id = None
  /\ prev = "none"
  /\ commented = FALSE

\* the names get_projector finds in PROJECTIONS
PROJECTIONS == {PyStr("utm"), PyStr("gk_cologne")}

\* the projection strings explored that pyproj's Proj() accepts; it raises
\* for every other one
ProjOk(name) == name = PyStr("+proj=latlong")

\* get_projector(name) returns a projector
get_projector_ok(name) == name = None \/ name \in PROJECTIONS \/ ProjOk(name)

\* a constructor that keeps the name and resolves it at the first use
construct_lazily(name) ==
  /\ pc = "new"
  /\ pc' = "create"
  /\ projection' = name
  /\ route_counter' = 0 /\ routes' = {} /\ stops' = EmptyDict
  /\ UNCHANGED <<err, files, agency_id, start, end, bitfeld, services,
                 fplan_locals>>

\* Hafas2GTFS(hafas_dir, out_dir, projection=name)
construct(name) ==
  /\ pc = "new"
  /\ IF get_projector_ok(name)
       THEN /\ pc' = "create"
            /\ projection' = name
            /\ route_counter' = 0 /\ routes' = {} /\ stops' = EmptyDict
            /\ UNCHANGED err
     ELSE /\ Abort("RuntimeError")
          /\ UNCHANGED <<projection, route_counter, routes, stops>>
  /\ UNCHANGED <<files, agency_id, start, end, bitfeld, services,
                 fplan_locals>>

make_gtfs_files ==
  /\ pc = "create"
  /\ pc' = "eckdaten"
  /\ files' = [t \in Tables |-> <<>>]
  /\ UNCHANGED <<err, agency_id, start, end, bitfeld, services, projection,
                 route_counter, routes, stops, fplan_locals>>

\* data: the first two lines of the eckdaten file
parse_eckdaten(data) ==
  /\ pc = "eckdaten"
  /\ IF ~DateOk(data[1])
       THEN Abort("ValueError") /\ UNCHANGED <<start, end>>
     ELSE IF ~DateOk(data[2])
       THEN Abort("ValueError") /\ start' = ParseDate(data[1]) /\ UNCHANGED end
     ELSE /\ start' = ParseDate(data[1])
          /\ end' = ParseDate(data[2])
          /\ pc' = "agency"
          /\ UNCHANGED err
  /\ UNCHANGED <<files, agency_id, bitfeld, services, projection,
                 route_counter, routes, stops, fplan_locals>>

write_agency ==
  /\ pc = "agency"
  /\ pc' = "bitfeld"
  /\ agency_id' = PyStr("1")
  /\ files' = WriteRow(files, "agency",
        [agency_id |-> PyStr("1"), agency_name |-> PyStr("Agency Name"),
         agency_url |-> PyStr(""), agency_timezone |-> PyStr(""),
         agency_lang |-> PyStr(""), agency_phone |-> PyStr("")])
  /\ UNCHANGED <<err, start, end, bitfeld, services, projection, route_counter,
                 routes, stops, fplan_locals>>

(***************************************************************************)
(* The calendar.                                                           *)
(***************************************************************************)
\* parse_bitfeld's day_range
day_range == (start - end) + 1

\* a decoder that pads a short payload with inactive days
decode_bitfield_padded(hex) ==
  LET got == PySlice(Bits(hex), 2, 2 + day_range)
  IN  got \o [i \in 1..((end - start) + 1 - Len(got)) |-> FALSE]

\* the bitfield stored for one line's hex text
decode_bitfield(hex) == PySlice(Bits(hex), 2, 2 + day_range)

\* one pass of parse_bitfeld's loop
parse_bitfeld(line) ==
  /\ pc = "bitfeld"
  /\ IF ~IntOk(PySlice(line, 0, 6))
       THEN Abort("ValueError") /\ UNCHANGED <<services, bitfeld>>
     ELSE IF ~HexOk(PySlice(line, 6, Len(line)))
       THEN Abort("CreationError") /\ UNCHANGED <<services, bitfeld>>
     ELSE LET service_id == IntOf(PySlice(line, 0, 6))
              hex == PySlice(line, 6, Len(line))
          IN  /\ services' = Update(services,
                    [k \in {service_id} |-> decode_bitfield(hex)])
              /\ bitfeld' = Update(bitfeld, [k \in {service_id} |-> hex])
              /\ UNCHANGED <<pc, err>>
  /\ UNCHANGED <<files, agency_id, start, end, projection, route_counter,
                 routes, stops, fplan_locals>>

write_full_service(service_id) ==
  [service_id |-> service_id,
   monday |-> PyStr("1"), tuesday |-> PyStr("1"), wednesday |-> PyStr("1"),
   thursday |-> PyStr("1"), friday |-> PyStr("1"), saturday |-> PyStr("1"),
   sunday |-> PyStr("1"),
   start_date |-> PyStr(FormatYMD(start)),
   end_date |-> PyStr(FormatYMD(end))]

\* a write_service that leaves out the default service 0
write_service_without_default ==
  /\ pc = "bitfeld"
  /\ pc' = "service_dates"
  /\ \E o \in Orders(DOMAIN services) :
       files' = WriteRows(files, "calendar",
         [i \in 1..Len(o) |-> write_full_service(PyStr(StrOfNat(o[i])))])
  /\ UNCHANGED <<err, agency_id, start, end, bitfeld, services, projection,
                 route_counter, routes, stops, fplan_locals>>

\* the bitfeld file has ended; write_service
write_service ==
  /\ pc = "bitfeld"
  /\ pc' = "service_dates"
  /\ \E o \in Orders(DOMAIN services) :
       files' = WriteRows(files, "calendar",
         <<write_full_service(PyStr("0"))>> \o
         [i \in 1..Len(o) |-> write_full_service(PyStr(StrOfNat(o[i])))])
  /\ UNCHANGED <<err, agency_id, start, end, bitfeld, services, projection,
                 route_counter, routes, stops, fplan_locals>>

\* the rows write_service_dates writes for one service
service_dates_rows(service_id) ==
  LET days == SelectIdx(services[service_id], Len(services[service_id]))
  IN  [k \in 1..Len(days) |->
         [service_id |-> PyInt(service_id),
          date |-> PyStr(FormatYMD(start + days[k])),
          exception_type |-> PyInt(1)]]

\* a create() that goes on to the stop files without write_service_dates
write_service_dates_skipped ==
  /\ pc = "service_dates"
  /\ pc' = "bfkoord"
  /\ UNCHANGED <<err, files, agency_id, start, end, bitfeld, services,
                 projection, route_counter, routes, stops, fplan_locals>>

write_service_dates ==
  /\ pc = "service_dates"
  /\ pc' = "bfkoord"
  /\ \E o \in Orders(DOMAIN services) :
       files' = WriteRows(files, "calendar_dates",
         Concat([i \in 1..Len(o) |-> service_dates_rows(o[i])]))
  /\ UNCHANGED <<err, agency_id, start, end, bitfeld, services, projection,
                 route_counter, routes, stops, fplan_locals>>

(***************************************************************************)
(* The inputs explored.                                                    *)
(***************************************************************************)
\* the two characters of a number below 100
Chars2(n) == <<DigitChars[(n \div 10) + 1], DigitChars[(n % 10) + 1]>>

\* the date n days after 01.01.2020 (within 2020) as DD.MM.YYYY
DateText(n) ==
  LET m == MonthOf(n, 2020, 1)
      d == n - DaysBeforeMonth(2020, m) + 1
  IN  Chars2(d) \o <<".">> \o Chars2(m) \o <<".", "2", "0", "2", "0">>

\* 01.01.2020 and 30.01.2020
StartDays == {0, 29}

\* the period of the 31-day scenario: 01.01.2020 .. 31.01.2020
ScenarioPeriod == <<DateText(0), DateText(30)>>

\* a start date that is no date
BadPeriod == <<<<"3", "1", ".", "0", "2", ".", "2", "0", "2", "0">>, DateText(0)>>

Periods ==
  {<<DateText(s), DateText(s + k)>> : s \in StartDays, k \in 0..MaxSpan}
    \cup {ScenarioPeriod, BadPeriod}

HexAlphabet == {"0", "A", "F"}

RECURSIVE HexTexts(_)
\* the hex texts of length up to n over HexAlphabet
HexTexts(n) ==
  IF n = 0 THEN {<<>>}
  ELSE HexTexts(n - 1) \cup
       {Append(h, c) : h \in {x \in HexTexts(n - 1) : Len(x) = n - 1},
                       c \in HexAlphabet}

\* 2 guard bits, 31 set bits, 3 clear bits
ScenarioHex == <<"3", "F", "F", "F", "F", "F", "F", "F", "8">>

ServiceIdTexts == {<<"0", "0", "0", "0", "0", "1">>,
                   <<"0", "0", "0", "0", "0", "2">>}

\* the lines of a bitfeld file: six characters of service id, then hex text;
\* one line has no service number and one has no hex text
BitfeldLines ==
  {s \o h : s \in ServiceIdTexts, h \in HexTexts(MaxHexLen) \cup {ScenarioHex}}
    \cup {<<"0", "0", "0", "0", "0", "X", "F">>,
          <<"0", "0", "0", "0", "0", "1", "G">>}

(***************************************************************************)
(* The run up to the end of write_service_dates, over every period and     *)
(* bitfeld line above.                                                     *)
(***************************************************************************)
NextCalendar ==
  \/ make_gtfs_files
  \/ \E data \in Periods : parse_eckdaten(data)
  \/ write_agency
  \/ \E line \in BitfeldLines : parse_bitfeld(line)
  \/ write_service
  \/ write_service_dates

SpecCalendar == Init /\ [][NextCalendar]_vars

(***************************************************************************)
(* The stop registry.                                                      *)
(***************************************************************************)
\* the number a pyproj projection gives for one axis: a term over the
\* projection and the coordinates, in place of the library's arithmetic
Projected(name, axis, x, y) ==
  <<"float", name \o "." \o axis \o "(" \o StrOfNat(x) \o ".0, " \o
             StrOfNat(y) \o ".0)">>

convert_utm(x, y) ==
  <<Projected("utm inverse", "lat", x, y), Projected("utm inverse", "lon", x, y)>>

convert_gk_cologne(x, y) ==
  <<Projected("gk_cologne inverse", "lat", x, y),
    Projected("gk_cologne inverse", "lon", x, y)>>

\* self.projector(x, y) of the projector get_projector returned
projector(x, y) ==
  IF projection = None THEN <<PyFloat(y), PyFloat(x)>>
  ELSE IF projection = PyStr("utm") THEN convert_utm(x, y)
  ELSE IF projection = PyStr("gk_cologne") THEN convert_gk_cologne(x, y)
  ELSE <<Projected(Csv(projection), "x", x, y),
         Projected(Csv(projection), "y", x, y)>>

\* self.stops[stop_id] of the defaultdict: a missing entry is created empty
Entry(st, stop_id) == IF stop_id \in DOMAIN st THEN st[stop_id] ELSE EmptyDict

\* self.stops[stop_id].update(fields)
Upsert(st, stop_id, fields) ==
  Update(st, [k \in {stop_id} |-> Update(Entry(st, stop_id), fields)])

\* one pass of parse_bfkoord's loop
parse_bfkoord(line) ==
  /\ pc = "bfkoord"
  /\ IF \/ ~IntOk(PySlice(line, 0, 7))
        \/ ~IntOk(PySlice(line, 8, 18))
        \/ ~IntOk(PySlice(line, 19, 29))
       THEN Abort("ValueError") /\ UNCHANGED stops
     ELSE LET stop_id == IntOf(PySlice(line, 0, 7))
              x == IntOf(PySlice(line, 8, 18))
              y == IntOf(PySlice(line, 19, 29))
              latlon == projector(x, y)
          IN  /\ stops' = Upsert(stops, stop_id,
                    [k \in {"lat", "lon"} |->
                       IF k = "lat" THEN latlon[1] ELSE latlon[2]])
              /\ UNCHANGED <<pc, err>>
  /\ UNCHANGED <<files, agency_id, start, end, bitfeld, services, projection,
                 route_counter, routes, fplan_locals>>

\* one pass of parse_bahnhof's loop
parse_bahnhof(line) ==
  /\ pc = "bahnhof"
  /\ IF ~IntOk(PySlice(line, 0, 7))
       THEN Abort("ValueError") /\ UNCHANGED stops
     ELSE LET stop_id == IntOf(PySlice(line, 0, 7))
              trans_authority == Join(PySlice(line, 8, 11))
              name == Join(Strip(PySlice(line, 12, Len(line))))
          IN  /\ stops' = Upsert(stops, stop_id,
                    [k \in {"name", "authority"} |->
                       IF k = "name" THEN PyStr(name)
                       ELSE PyStr(trans_authority)])
              /\ UNCHANGED <<pc, err>>
  /\ UNCHANGED <<files, agency_id, start, end, bitfeld, services, projection,
                 route_counter, routes, fplan_locals>>

\* a file's loop ends and create() goes on to the next one, or returns
end_of_file ==
  /\ \/ pc = "bfkoord" /\ pc' = "bahnhof"
     \/ pc = "bahnhof" /\ pc' = "fplan"
     \/ pc = "fplan" /\ pc' = "done"
  /\ UNCHANGED <<err, files, agency_id, start, end, bitfeld, services,
                 projection, route_counter, routes, stops, fplan_locals>>

(***************************************************************************)
(* The writers parse_fplan calls.  Each takes and returns the converter's  *)
(* fields as a record s = [files, route_counter, routes, stops, err, ret]: *)
(* err is the exception raised (or ""), ret the value returned.            *)
(***************************************************************************)
ROUTE_TYPES ==
  [c \in {"UUU", "BUS", "NFB", "STR", "STA", "SBA", "ZUG", "SCH", "ALT", "TB",
           "VUU", "VBU", "VNF", "VSR", "VSA", "VSB", "VZU", "VSC", "VAL"} |->
     PyInt(0)]

\* the routes.txt row of a route id
route_row(rid, m) ==
  [route_id |-> rid, agency_id |-> agency_id,
   route_short_name |-> rid, route_long_name |-> rid,
   route_desc |-> PyStr(""),
   route_type |-> PyStr(Csv(Get(ROUTE_TYPES, m["mean_of_transport"][2],
                                PyInt(0)))),
   route_url |-> PyStr(""), route_color |-> PyStr(""),
   route_text_color |-> PyStr("")]

\* a resolution that counts every trip, with or without a line number
resolve_route_counting_all(s, m) ==
  [route_counter |-> s.route_counter + 1,
   route_id |-> IF Get(m, "line_number", None) = None
                  THEN PyInt(s.route_counter + 1)
                ELSE Get(m, "line_number", None)]

\* write_route's first lines: the line number, or else the next counter value
resolve_route(s, m) ==
  IF Get(m, "line_number", None) = None
    THEN [route_counter |-> s.route_counter + 1,
          route_id |-> PyInt(s.route_counter + 1)]
  ELSE [route_counter |-> s.route_counter,
        route_id |-> Get(m, "line_number", None)]

\* a write_route that returns the id without a row when the meta has no
\* mean of transport
write_route_skipping_unknown_mode(s, m) ==
  LET r == resolve_route(s, m)
      s1 == [s EXCEPT !.route_counter = r.route_counter]
  IN  IF r.route_id \in s.routes THEN [s1 EXCEPT !.ret = r.route_id]
      ELSE IF "mean_of_transport" \notin DOMAIN m
        THEN [s1 EXCEPT !.routes = @ \cup {r.route_id}, !.ret = r.route_id]
      ELSE [s1 EXCEPT
              !.routes = @ \cup {r.route_id},
              !.files = WriteRow(@, "routes", route_row(r.route_id, m)),
              !.ret = r.route_id]

write_route(s, m) ==
  LET r == resolve_route(s, m)
      s1 == [s EXCEPT !.route_counter = r.route_counter]
  IN  IF r.route_id \in s.routes THEN [s1 EXCEPT !.ret = r.route_id]
      ELSE IF "mean_of_transport" \notin DOMAIN m
        THEN [s1 EXCEPT !.routes = @ \cup {r.route_id}, !.err = "KeyError"]
      ELSE [s1 EXCEPT
              !.routes = @ \cup {r.route_id},
              !.files = WriteRow(@, "routes", route_row(r.route_id, m)),
              !.ret = r.route_id]

\* a write_trip that writes no second row for a trip id
write_trip_deduplicating(s, rid, m) ==
  IF "service_number" \notin DOMAIN m THEN [s EXCEPT !.err = "KeyError"]
  ELSE IF \E k \in 1..Len(s.files["trips"]) :
            s.files["trips"][k].trip_id = m["service_number"]
    THEN [s EXCEPT !.ret = m["service_number"]]
  ELSE [s EXCEPT
          !.files = WriteRow(@, "trips",
            [route_id |-> rid,
             service_id |-> PyStr(Csv(Get(m, "bitfield_number", PyInt(0)))),
             trip_id |-> m["service_number"],
             trip_headsign |-> PyStr(""), trip_short_name |-> PyStr(""),
             direction_id |-> Get(m, "direction", PyStr("0")),
             block_id |-> PyStr(""), shape_id |-> PyStr("")]),
          !.ret = m["service_number"]]

write_trip(s, rid, m) ==
  IF "service_number" \notin DOMAIN m THEN [s EXCEPT !.err = "KeyError"]
  ELSE [s EXCEPT
          !.files = WriteRow(@, "trips",
            [route_id |-> rid,
             service_id |-> PyStr(Csv(Get(m, "bitfield_number", PyInt(0)))),
             trip_id |-> m["service_number"],
             trip_headsign |-> PyStr(""), trip_short_name |-> PyStr(""),
             direction_id |-> Get(m, "direction", PyStr("0")),
             block_id |-> PyStr(""), shape_id |-> PyStr("")]),
          !.ret = m["service_number"]]

\* time: <<>> for None, else the tuple (hour, minute)
get_gtfs_time(time) ==
  IF time = <<>> THEN None
  ELSE LET t == IF Len(time) = 2 THEN <<ZFill2(time[1]), ZFill2(time[2]), "00">>
                ELSE [i \in 1..Len(time) |-> ZFill2(time[i])]
       IN  PyStr(t[1] \o ":" \o t[2] \o ":" \o t[3])

\* the stops.txt row of a stop
stop_row(stop_id, stop_data) ==
  [stop_id |-> PyInt(stop_id), stop_code |-> PyInt(stop_id),
   stop_name |-> stop_data["name"], stop_desc |-> PyStr(""),
   stop_lat |-> PyStr(Csv(stop_data["lat"])),
   stop_lon |-> PyStr(Csv(stop_data["lon"])),
   zone_id |-> None, stop_url |-> PyStr(""),
   location_type |-> PyStr("0"), parent_station |-> None]

\* a write_stop that does not look at the done flag
write_stop_every_time(s, stop_line) ==
  LET stop_id == stop_line.stop_id
      stop_data == Entry(s.stops, stop_id)
      s1 == [s EXCEPT !.stops = Update(@, [k \in {stop_id} |-> stop_data])]
  IN  IF {"name", "lat", "lon"} \subseteq DOMAIN stop_data
        THEN [s1 EXCEPT
                !.files = WriteRow(@, "stops", stop_row(stop_id, stop_data)),
                !.stops = Update(@, [k \in {stop_id} |->
                            Update(stop_data, [d \in {"done"} |-> True])]),
                !.ret = PyInt(stop_id)]
      ELSE [s1 EXCEPT !.err = "KeyError"]

\* a write_stop that clears the done flag when it finds it set
write_stop_forgetting(s, stop_line) ==
  LET stop_id == stop_line.stop_id
      stop_data == Entry(s.stops, stop_id)
      s1 == [s EXCEPT !.stops = Update(@, [k \in {stop_id} |-> stop_data])]
  IN  IF Get(stop_data, "done", None) = True
        THEN [s1 EXCEPT
                !.stops = Update(@, [k \in {stop_id} |->
                            [d \in DOMAIN stop_data \ {"done"} |->
                               stop_data[d]]]),
                !.ret = PyInt(stop_id)]
      ELSE IF {"name", "lat", "lon"} \subseteq DOMAIN stop_data
        THEN [s1 EXCEPT
                !.files = WriteRow(@, "stops", stop_row(stop_id, stop_data)),
                !.stops = Update(@, [k \in {stop_id} |->
                            Update(stop_data, [d \in {"done"} |-> True])]),
                !.ret = PyInt(stop_id)]
      ELSE [s1 EXCEPT !.err = "KeyError"]

\* a write_stop that sets the done flag before it reads the stop's fields
write_stop_marking_first(s, stop_line) ==
  LET stop_id == stop_line.stop_id
      stop_data == Entry(s.stops, stop_id)
      marked == Update(stop_data, [d \in {"done"} |-> True])
      s1 == [s EXCEPT !.stops = Update(@, [k \in {stop_id} |-> marked])]
  IN  IF Get(stop_data, "done", None) = True
        THEN [s EXCEPT !.ret = PyInt(stop_id)]
      ELSE IF {"name", "lat", "lon"} \subseteq DOMAIN stop_data
        THEN [s1 EXCEPT
                !.files = WriteRow(@, "stops", stop_row(stop_id, stop_data)),
                !.ret = PyInt(stop_id)]
      ELSE [s1 EXCEPT !.err = "KeyError"]

write_stop(s, stop_line) ==
  LET stop_id == stop_line.stop_id
      stop_data == Entry(s.stops, stop_id)
      s1 == [s EXCEPT !.stops = Update(@, [k \in {stop_id} |-> stop_data])]
  IN  IF Get(stop_data, "done", None) = True THEN [s1 EXCEPT !.ret = PyInt(stop_id)]
      ELSE IF {"name", "lat", "lon"} \subseteq DOMAIN stop_data
        THEN [s1 EXCEPT
                !.files = WriteRow(@, "stops", stop_row(stop_id, stop_data)),
                !.stops = Update(@, [k \in {stop_id} |->
                            Update(stop_data, [d \in {"done"} |-> True])]),
                !.ret = PyInt(stop_id)]
      ELSE [s1 EXCEPT !.err = "KeyError"]

\* a fallback whose assignments go the wrong way
fill_times_reversed(arrival, departure) ==
  IF Falsy(arrival) /\ ~Falsy(departure) THEN <<arrival, arrival>>
  ELSE IF Falsy(departure) /\ ~Falsy(arrival) THEN <<departure, departure>>
  ELSE <<arrival, departure>>

\* a fallback that fills a missing arrival but not a missing departure
fill_times_arrival_only(arrival, departure) ==
  IF Falsy(arrival) /\ ~Falsy(departure) THEN <<departure, departure>>
  ELSE <<arrival, departure>>

\* write_stop_time's if/elif: <<arrival_time, departure_time>> as written
fill_times(arrival, departure) ==
  IF Falsy(arrival) /\ ~Falsy(departure) THEN <<departure, departure>>
  ELSE IF Falsy(departure) /\ ~Falsy(arrival) THEN <<arrival, arrival>>
  ELSE <<arrival, departure>>

write_stop_time(s, tid, seq, stop_line) ==
  LET s1 == write_stop(s, stop_line)
      times == fill_times(get_gtfs_time(stop_line.arrival_time),
                          get_gtfs_time(stop_line.departure_time))
      arrival_time == times[1]
      departure_time == times[2]
  IN  IF s1.err # "" THEN s1
      ELSE [s1 EXCEPT
              !.files = WriteRow(@, "stop_times",
                [trip_id |-> tid, arrival_time |-> arrival_time,
                 departure_time |-> departure_time, stop_id |-> s1.ret,
                 stop_sequence |-> PyInt(seq), stop_headsign |-> PyStr(""),
                 pickup_type |-> PyStr("0"), drop_off_type |-> PyStr("0"),
                 shape_dist_traveled |-> PyStr("0")]),
              !.ret = None]

(***************************************************************************)
(* parse_fplan.                                                            *)
(***************************************************************************)
\* line.startswith(c)
StartsWith(line, c) == line # <<>> /\ line[1] = c

\* parse_time raises no ValueError
parse_time_ok(time_str) ==
  LET t == Strip(time_str)
  IN  t = <<>> \/ (IntOk(PySlice(t, 0, 2)) /\ IntOk(PySlice(t, 2, 4)))

parse_time(time_str) ==
  LET t == Strip(time_str)
  IN  IF t = <<>> THEN <<>>
      ELSE <<IntOf(PySlice(t, 0, 2)), IntOf(PySlice(t, 2, 4))>>

parse_schedule_ok(line) ==
  /\ IntOk(PySlice(line, 0, 7))
  /\ parse_time_ok(PySlice(line, 29, 33))
  /\ parse_time_ok(PySlice(line, 34, 38))

parse_schedule(line) ==
  [stop_id |-> IntOf(PySlice(line, 0, 7)),
   stop_name |-> Join(Strip(PySlice(line, 8, 29))),
   arrival_time |-> parse_time(PySlice(line, 29, 33)),
   departure_time |-> parse_time(PySlice(line, 34, 38))]

\* the tag of a meta line, line[1]
Tag(line) == IF Len(line) >= 2 THEN line[2] ELSE ""

\* the extractor of the line's tag raises no ValueError
parse_fplan_meta_ok(line) ==
  /\ Tag(line) = "Z" => IntOk(PySlice(line, 3, 8))
  /\ (Tag(line) = "A" /\ PySlice(line, 3, 5) = <<"V", "E">>)
       => IntOk(PySlice(line, 22, 28))

parse_fplan_meta_Z(line) ==
  [k \in {"service_number", "administration", "number_intervals",
           "time_offset"} |->
     CASE k = "service_number" -> PyInt(IntOf(PySlice(line, 3, 8)))
       [] k = "administration" -> PyStr(Join(PySlice(line, 9, 15)))
       [] k = "number_intervals" -> PyStr(Join(PySlice(line, 22, 25)))
       [] k = "time_offset" -> PyStr(Join(PySlice(line, 26, 29)))]

parse_fplan_meta_G(line) ==
  [k \in {"mean_of_transport"} |-> PyStr(Join(Strip(PySlice(line, 3, 6))))]

\* an extractor that reads the bitfield number of every A line
parse_fplan_meta_A_of_any_code(line) ==
  [k \in {"start_index", "end_index", "bitfield_number"} |->
     CASE k = "start_index" -> PyStr(Join(PySlice(line, 6, 13)))
       [] k = "end_index" -> PyStr(Join(PySlice(line, 14, 21)))
       [] k = "bitfield_number" -> PyInt(IntOf(PySlice(line, 22, 28)))]

parse_fplan_meta_A(line) ==
  IF PySlice(line, 3, 5) = <<"V", "E">>
    THEN [k \in {"start_index", "end_index", "bitfield_number"} |->
            CASE k = "start_index" -> PyStr(Join(PySlice(line, 6, 13)))
              [] k = "end_index" -> PyStr(Join(PySlice(line, 14, 21)))
              [] k = "bitfield_number" -> PyInt(IntOf(PySlice(line, 22, 28)))]
  ELSE EmptyDict

parse_fplan_meta_I(line) == EmptyDict

parse_fplan_meta_L(line) ==
  [k \in {"line_number"} |-> PyStr(Join(Strip(PySlice(line, 3, 11))))]

parse_fplan_meta_R(line) ==
  [k \in {"direction"} |-> PyStr(Join(Strip(PySlice(line, 3, 4))))]

\* the dispatch on the tag; a tag without an extractor gives {}
parse_fplan_meta(line) ==
  CASE Tag(line) = "Z" -> parse_fplan_meta_Z(line)
    [] Tag(line) = "G" -> parse_fplan_meta_G(line)
    [] Tag(line) = "A" -> parse_fplan_meta_A(line)
    [] Tag(line) = "I" -> parse_fplan_meta_I(line)
    [] Tag(line) = "L" -> parse_fplan_meta_L(line)
    [] Tag(line) = "R" -> parse_fplan_meta_R(line)
    [] OTHER -> EmptyDict

\* a comment line that ends the data block it is read in
fplan_comment_ending_block(line) ==
  /\ pc = "fplan"
  /\ StartsWith(line, "%")
  /\ commented' = TRUE
  /\ state' = "meta"
  /\ UNCHANGED <<pc, err, files, agency_id, start, end, bitfeld, services,
                 projection, route_counter, routes, stops, meta,
                 stop_sequence, route_id, trip_id, prev>>

\* a line starting with % is skipped
fplan_comment(line) ==
  /\ pc = "fplan"
  /\ StartsWith(line, "%")
  /\ commented' = TRUE
  /\ UNCHANGED <<pc, err, files, agency_id, start, end, bitfeld, services,
                 projection, route_counter, routes, stops, state, meta,
                 stop_sequence, route_id, trip_id, prev>>

\* a meta line that leaves the state as it is
fplan_meta_keeping_state(line) ==
  /\ pc = "fplan"
  /\ ~StartsWith(line, "%") /\ StartsWith(line, "*")
  /\ state' = state
  /\ prev' = "meta"
  /\ commented' = FALSE
  /\ IF parse_fplan_meta_ok(line)
       THEN /\ meta' = Update(meta, parse_fplan_meta(line))
            /\ UNCHANGED <<pc, err>>
     ELSE /\ UNCHANGED meta
          /\ Abort("ValueError")
  /\ UNCHANGED <<files, agency_id, start, end, bitfeld, services, projection,
                 route_counter, routes, stops, stop_sequence, route_id,
                 trip_id>>

\* a meta line that merges into the accumulator without ever emptying it
fplan_meta_without_reset(line) ==
  /\ pc = "fplan"
  /\ ~StartsWith(line, "%") /\ StartsWith(line, "*")
  /\ state' = "meta"
  /\ prev' = "meta"
  /\ commented' = FALSE
  /\ IF parse_fplan_meta_ok(line)
       THEN /\ meta' = Update(meta, parse_fplan_meta(line))
            /\ UNCHANGED <<pc, err>>
     ELSE /\ UNCHANGED meta
          /\ Abort("ValueError")
  /\ UNCHANGED <<files, agency_id, start, end, bitfeld, services, projection,
                 route_counter, routes, stops, stop_sequence, route_id,
                 trip_id>>

\* a line starting with *
fplan_meta(line) ==
  /\ pc = "fplan"
  /\ ~StartsWith(line, "%") /\ StartsWith(line, "*")
  /\ state' = "meta"
  /\ prev' = "meta"
  /\ commented' = FALSE
  /\ IF parse_fplan_meta_ok(line)
       THEN /\ meta' = Update(IF state # "meta" THEN EmptyDict ELSE meta,
                              parse_fplan_meta(line))
            /\ UNCHANGED <<pc, err>>
     ELSE /\ meta' = IF state # "meta" THEN EmptyDict ELSE meta
          /\ Abort("ValueError")
  /\ UNCHANGED <<files, agency_id, start, end, bitfeld, services, projection,
                 route_counter, routes, stops, stop_sequence, route_id,
                 trip_id>>

\* a numbering that goes on from the previous trip's last number
first_stop_sequence_continued(new) ==
  IF stop_sequence < 0 THEN 0 ELSE stop_sequence

\* stop_sequence before the data line's increment: 0 on a new trip
first_stop_sequence(new) == IF new THEN 0 ELSE stop_sequence

\* the converter's fields as the writers take them
Self == [files |-> files, route_counter |-> route_counter, routes |-> routes,
         stops |-> stops, err |-> "", ret |-> None]

\* any other line: a data line
fplan_data(line) ==
  /\ pc = "fplan"
  /\ ~StartsWith(line, "%") /\ ~StartsWith(line, "*")
  /\ state # "data" => Len(files["trips"]) < MaxTrips
  /\ Len(files["stop_times"]) < MaxStopTimes
  /\ LET new == state # "data"
         s1 == IF new THEN write_route(Self, meta) ELSE Self
         rid == IF new /\ s1.err = "" THEN s1.ret ELSE route_id
         s2 == IF new /\ s1.err = "" THEN write_trip(s1, rid, meta) ELSE s1
         tid == IF new /\ s2.err = "" THEN s2.ret ELSE trip_id
         seq0 == first_stop_sequence(new)
         seq == IF s2.err = "" THEN seq0 + 1 ELSE seq0
         s3 == IF s2.err # "" THEN s2
               ELSE IF ~parse_schedule_ok(line)
                 THEN [s2 EXCEPT !.err = "ValueError"]
               ELSE write_stop_time(s2, tid, seq, parse_schedule(line))
     IN  /\ files' = s3.files
         /\ route_counter' = s3.route_counter
         /\ routes' = s3.routes
         /\ stops' = s3.stops
         /\ route_id' = rid
         /\ trip_id' = tid
         /\ stop_sequence' = seq
         /\ state' = IF s2.err = "" THEN "data" ELSE state
         /\ IF s3.err = "" THEN UNCHANGED <<pc, err>> ELSE Abort(s3.err)
  /\ prev' = "data"
  /\ commented' = FALSE
  /\ UNCHANGED <<agency_id, start, end, bitfeld, services, projection, meta>>

(***************************************************************************)
(* The calendar claims, checked under SpecCalendar.                        *)
(***************************************************************************)
\* the number of days of the period, both ends included
PeriodDays == (end - start) + 1

\* the hex text read for this service id has the 2 guard bits and a bit
\* for every day of the period
EnoughBits(id) == Len(Bits(bitfeld[id])) >= 2 + PeriodDays

\* the calendar_dates rows of a service id and a date, as written in the file
RowsOf(id, date) ==
  {k \in 1..Len(files["calendar_dates"]) :
     /\ Csv(files["calendar_dates"][k].service_id) = StrOfNat(id)
     /\ Csv(files["calendar_dates"][k].date) = date}

\* C1: every decoded calendar (of a payload that has the bits) has exactly
\* end - start + 1 entries, and entry i is the payload bit at position 2 + i.
C1_CalendarVector ==
  \A id \in DOMAIN services :
    EnoughBits(id) =>
      /\ Len(services[id]) = PeriodDays
      /\ \A i \in 0..(Len(services[id]) - 1) :
           services[id][i + 1] = Bits(bitfeld[id])[2 + i + 1]

\* C2: once write_service_dates has run, calendar_dates holds for every
\* service exactly one row for each day start + i of the period whose
\* payload bit 2 + i is set, with exception type 1, and no other row; so the
\* scenario service 1 (31 set bits, period 01.01.2020..31.01.2020) has 31
\* rows.
C2_ServiceDatesRows ==
  pc = "bfkoord" =>
    \A id \in DOMAIN services :
      EnoughBits(id) =>
        /\ \A i \in 0..(PeriodDays - 1) :
             Cardinality(RowsOf(id, FormatYMD(start + i)))
               = IF Bits(bitfeld[id])[2 + i + 1] THEN 1 ELSE 0
        /\ \A k \in 1..Len(files["calendar_dates"]) :
             LET row == files["calendar_dates"][k]
             IN  Csv(row.service_id) = StrOfNat(id) =>
                   /\ Csv(row.exception_type) = "1"
                   /\ \E i \in 0..(PeriodDays - 1) :
                        Csv(row.date) = FormatYMD(start + i)

\* C3 as claimed: a payload with fewer than 2 + day_range bits is never
\* decoded into a stored calendar (the decoder fails instead).
C3_ShortPayloadFails ==
  \A id \in DOMAIN bitfeld : EnoughBits(id)

\* C3 as amended: a well-formed line whose payload has fewer than
\* 2 + day_range bits is decoded without an error, like any other line: a
\* calendar is stored for its service, shorter than day_range and made of
\* no more than the payload bits after the two guard bits.
C3_ShortPayloadStored ==
  \A id \in DOMAIN bitfeld :
    ~EnoughBits(id) =>
      /\ id \in DOMAIN services
      /\ Len(services[id]) < PeriodDays
      /\ Len(services[id]) <= Len(PySlice(Bits(bitfeld[id]), 2, Len(Bits(bitfeld[id]))))

\* C3 witness: a calendar of a payload without the bits was stored and the
\* run went on to the end of the calendar emission.
C3_Witness ==
  /\ pc = "bfkoord"
  /\ \E id \in DOMAIN bitfeld :
       ~EnoughBits(id) /\ Len(services[id]) < PeriodDays

(***************************************************************************)
(* The whole run, over the stop files and schedule lines below.            *)
(***************************************************************************)
Blanks(n) == [i \in 1..n |-> " "]

\* the text, then blanks up to n characters
PadRight(t, n) == t \o Blanks(n - Len(t))

RECURSIVE NumText(_, _)
\* the number in w digits, with leading zeros
NumText(n, w) ==
  IF w = 0 THEN <<>> ELSE NumText(n \div 10, w - 1) \o <<DigitChars[(n % 10) + 1]>>

\* a bfkoord line: columns 1-7 stop id, 9-18 x, 20-29 y (whole numbers)
KoordLine(id, x, y) ==
  NumText(id, 7) \o <<" ">> \o PadRight(NumText(x, 2), 10) \o <<" ">>
    \o PadRight(NumText(y, 2), 10)

\* a bahnhof line: columns 1-7 stop id, 9-11 authority, 13- name
BahnhofLine(id, name) ==
  NumText(id, 7) \o <<" ", "V", "R", "S", " ">> \o name \o <<" ">>

\* a data line: columns 1-7 stop id, 9-29 name, 30-33 arrival, 35-38 departure
DataLine(id, arrival, departure) ==
  NumText(id, 7) \o <<" ">> \o PadRight(<<"H", "s", "t">>, 21) \o arrival
    \o <<" ">> \o departure

ZLine(n) ==
  <<"*", "Z", " ">> \o NumText(n, 5) \o <<" ", "V", "R", "S", "_", "_", "_">>
    \o Blanks(7) \o <<"0", "0", "1", " ", "0", "6", "0">>

GLine == <<"*", "G", " ", "B", "U", "S">>

LLine(number) == <<"*", "L", " ">> \o PadRight(number, 8)

StopIds == {1, 2}

KoordLines ==
  {KoordLine(1, 10, 50), KoordLine(2, 11, 51),
   <<"x">> \o KoordLine(1, 10, 50)}

BahnhofLines ==
  {BahnhofLine(1, <<"K", "o", "e", "l", "n">>), BahnhofLine(2, <<"B", "o", "n", "n">>),
   <<"x">> \o BahnhofLine(1, <<"K">>)}

NoTime == Blanks(4)

\* the period and the bitfeld line of the runs that go on to the schedule
SchedulePeriods == {<<DateText(0), DateText(1)>>}

ScheduleBitfeldLines == {<<"0", "0", "0", "0", "0", "1", "C", "0">>}

CommentLine == <<"%", " ", "c">>

MetaLines == {ZLine(1), ZLine(2), GLine, LLine(<<"1">>), LLine(<<"1", "0", "0">>)}

DataLines ==
  {DataLine(1, <<"0", "6", "3", "5">>, NoTime),
   DataLine(2, NoTime, <<"0", "7", "0", "5">>)}

Next ==
  \/ make_gtfs_files
  \/ \E data \in SchedulePeriods : parse_eckdaten(data)
  \/ write_agency
  \/ \E line \in ScheduleBitfeldLines : parse_bitfeld(line)
  \/ write_service
  \/ write_service_dates
  \/ \E line \in KoordLines : parse_bfkoord(line)
  \/ \E line \in BahnhofLines : parse_bahnhof(line)
  \/ end_of_file
  \/ \E line \in MetaLines : fplan_meta(line)
  \/ \E line \in DataLines : fplan_data(line)

Spec == Init /\ [][Next]_vars

(***************************************************************************)
(* The whole run again, with a single stop and a single trip context but   *)
(* with every combination of the two time fields of a data line.           *)
(***************************************************************************)
TimesKoordLines == {KoordLine(1, 10, 50)}

TimesBahnhofLines == {BahnhofLine(1, <<"K", "o", "e", "l", "n">>)}

TimesMetaLines == {ZLine(1), GLine}

\* arrival fields: blank, 06:35, midnight, a field of three digits and a
\* field that is no number
ArrivalTexts == {NoTime, <<"0", "6", "3", "5">>, <<"0", "0", "0", "0">>,
                 <<" ", "6", "3", "5">>, <<"0", "6", "x", "5">>}

\* departure fields: blank, 06:40, 23:59
DepartureTexts == {NoTime, <<"0", "6", "4", "0">>, <<"2", "3", "5", "9">>}

TimesDataLines ==
  {DataLine(1, a, d) : a \in ArrivalTexts, d \in DepartureTexts}

NextTimes ==
  \/ make_gtfs_files
  \/ \E data \in SchedulePeriods : parse_eckdaten(data)
  \/ write_agency
  \/ \E line \in ScheduleBitfeldLines : parse_bitfeld(line)
  \/ write_service
  \/ write_service_dates
  \/ \E line \in TimesKoordLines : parse_bfkoord(line)
  \/ \E line \in TimesBahnhofLines : parse_bahnhof(line)
  \/ end_of_file
  \/ \E line \in TimesMetaLines : fplan_meta(line)
  \/ \E line \in TimesDataLines : fplan_data(line)

SpecTimes == Init /\ [][NextTimes]_vars

(***************************************************************************)
(* The schedule claims.                                                    *)
(***************************************************************************)
Last(q) == q[Len(q)]

\* the stops.txt rows whose stop_id is written as this text
StopRowsOf(text) ==
  {k \in 1..Len(files["stops"]) : Csv(files["stops"][k].stop_id) = text}

\* C4: at every point of the run, and so at its end, a stop id that a
\* stop_times row references has exactly one stops row, however many rows
\* and trips reference it; a stop has a row iff it is marked done.
C4_OneStopRow ==
  /\ \A k \in 1..Len(files["stop_times"]) :
       Cardinality(StopRowsOf(Csv(files["stop_times"][k].stop_id))) = 1
  /\ \A id \in DOMAIN stops :
       Cardinality(StopRowsOf(StrOfNat(id)))
         = IF Get(stops[id], "done", None) = True THEN 1 ELSE 0
  /\ \A k \in 1..Len(files["stops"]) :
       \E id \in DOMAIN stops : Csv(files["stops"][k].stop_id) = StrOfNat(id)

\* C4 witness: the run has ended, two trips have each referenced the same
\* stop, and that stop has one row.
C4_Witness ==
  /\ pc = "done"
  /\ Len(files["trips"]) = 2
  /\ Len(files["stop_times"]) = 2
  /\ files["stop_times"][1].stop_id = files["stop_times"][2].stop_id
  /\ files["stop_times"][1].stop_sequence = files["stop_times"][2].stop_sequence
  /\ Cardinality(StopRowsOf(Csv(files["stop_times"][1].stop_id))) = 1

\* C5: no two routes rows have the same route_id in the table,
\* whatever mix of trips with and without line numbers was read.
C5_OneRowPerRouteIdText ==
  \A i, j \in 1..Len(files["routes"]) :
    Csv(files["routes"][i].route_id) = Csv(files["routes"][j].route_id)
      => i = j

IsCounterTrip(row) == row.route_id[1] = "int"

\* the trips rows whose route id came from the counter, in order
CounterTrips == SelectSeq(files["trips"], IsCounterTrip)

\* C6: the trips without a line number have the route ids 1, 2, 3, ... in
\* order, the counter is the number of such trips (a line number leaves it
\* unchanged), and the trip of the current data block has its line number as
\* route id when its meta block carries one, else the counter's value.
C6_RouteResolution ==
  /\ \A k \in 1..Len(CounterTrips) : CounterTrips[k].route_id = PyInt(k)
  /\ \/ route_counter = Len(CounterTrips)
     \/ pc = "aborted" /\ route_counter = Len(CounterTrips) + 1
  /\ state = "data" =>
       /\ Len(files["trips"]) >= 1
       /\ Last(files["trips"]).route_id
            = IF "line_number" \in DOMAIN meta THEN meta["line_number"]
              ELSE PyInt(route_counter)

\* C6 witness: a trip with line number 100, then a trip without one, which
\* gets the counter's first value.
C6_Witness ==
  /\ Len(files["trips"]) = 2
  /\ files["trips"][1].route_id = PyStr("100")
  /\ files["trips"][2].route_id = PyInt(1)
  /\ route_counter = 1
  /\ state = "data"

\* the stop_times rows that carry the trip id of row k, in order
SameTripRows(k) ==
  LET SameTrip(row) == row.trip_id = files["stop_times"][k].trip_id
  IN  SelectSeq(files["stop_times"], SameTrip)

\* C7 as claimed: the stop_times rows of one trip id are numbered 1, 2, ...
\* N in the order they were written.
C7_SequencePerTripId ==
  \A k \in 1..Len(files["stop_times"]) :
    \A i \in 1..Len(SameTripRows(k)) :
      SameTripRows(k)[i].stop_sequence = PyInt(i)

\* the rows that begin a numbering
SequenceStarts ==
  {i \in 1..Len(files["stop_times"]) :
     files["stop_times"][i].stop_sequence = PyInt(1)}

\* C7 as amended: the stop_times rows are numbered per trips row (per data
\* block), not per trip id: a row has number 1, or the number after that of
\* the row before it and the same trip id; the n-th numbering belongs to the
\* n-th trips row, and every trips row has its numbering unless the run was
\* aborted before the first row of the last one.
C7_SequencePerBlock ==
  /\ \A i \in 1..Len(files["stop_times"]) :
       \/ i \in SequenceStarts
       \/ /\ i > 1
          /\ files["stop_times"][i].trip_id = files["stop_times"][i - 1].trip_id
          /\ \E n \in 1..Len(files["stop_times"]) :
               /\ files["stop_times"][i - 1].stop_sequence = PyInt(n)
               /\ files["stop_times"][i].stop_sequence = PyInt(n + 1)
  /\ \A i \in SequenceStarts :
       LET n == Cardinality({j \in SequenceStarts : j <= i})
       IN  /\ n <= Len(files["trips"])
           /\ files["stop_times"][i].trip_id = files["trips"][n].trip_id
  /\ \/ Cardinality(SequenceStarts) = Len(files["trips"])
     \/ pc = "aborted" /\ Cardinality(SequenceStarts) + 1 = Len(files["trips"])

\* C7 witness: two data blocks with the same trip id, each with a row
\* numbered 1.
C7_Witness ==
  /\ Len(files["trips"]) = 2
  /\ files["trips"][1].trip_id = files["trips"][2].trip_id
  /\ Len(files["stop_times"]) = 2
  /\ files["stop_times"][1].trip_id = files["stop_times"][2].trip_id
  /\ files["stop_times"][1].stop_sequence = PyInt(1)
  /\ files["stop_times"][2].stop_sequence = PyInt(1)

\* a data line of the Spec's schedule is read
DataStep == \E line \in DataLines : fplan_data(line)

\* C10: a data line that follows a meta line (or starts the file) writes one
\* trips row and then a stop_times row numbered 1 with that row's trip id;
\* a data line that follows a data line writes no trips row and a
\* stop_times row with the last trips row's trip id and the next number; a
\* line that is no data line writes no row; an aborted data line writes no
\* stop_times row.
C10_OneTripPerBlock ==
  [][LET tr == files["trips"]
         tr2 == files'["trips"]
         st == files["stop_times"]
         st2 == files'["stop_times"]
     IN  /\ (DataStep /\ pc' # "aborted") =>
              /\ Len(st2) = Len(st) + 1
              /\ SubSeq(st2, 1, Len(st)) = st
              /\ IF prev # "data"
                   THEN /\ Len(tr2) = Len(tr) + 1
                        /\ SubSeq(tr2, 1, Len(tr)) = tr
                        /\ Last(st2).trip_id = Last(tr2).trip_id
                        /\ Last(st2).stop_sequence = PyInt(1)
                 ELSE /\ tr2 = tr
                      /\ Len(tr) >= 1 /\ Len(st) >= 1
                      /\ Last(st2).trip_id = Last(tr).trip_id
                      /\ \E n \in 1..Len(st) :
                           /\ Last(st).stop_sequence = PyInt(n)
                           /\ Last(st2).stop_sequence = PyInt(n + 1)
         /\ (DataStep /\ pc' = "aborted") =>
              /\ st2 = st
              /\ tr2 = tr \/ (prev # "data" /\ Len(tr2) = Len(tr) + 1)
         /\ (pc = "fplan" /\ ~DataStep) => files' = files
    ]_vars

\* C10 witness: one meta block and two data lines: one trip, two stop_times
\* rows numbered 1 and 2 with its trip id, and the run has ended.
C10_Witness ==
  /\ pc = "done"
  /\ Len(files["trips"]) = 1
  /\ Len(files["stop_times"]) = 2
  /\ files["stop_times"][1].stop_sequence = PyInt(1)
  /\ files["stop_times"][2].stop_sequence = PyInt(2)
  /\ files["stop_times"][1].trip_id = files["trips"][1].trip_id
  /\ files["stop_times"][2].trip_id = files["trips"][1].trip_id

(***************************************************************************)
(* The claims about the time fields, checked under SpecTimes.              *)
(***************************************************************************)
ArrivalField(line) == PySlice(line, 29, 33)

DepartureField(line) == PySlice(line, 34, 38)

Blank(field) == Strip(field) = <<>>

\* a data line of the SpecTimes schedule is read and its row is written
TimesRowWritten(line) ==
  /\ fplan_data(line)
  /\ Len(files'["stop_times"]) = Len(files["stop_times"]) + 1

\* C8 as claimed: no stop_times row has arrival_time and departure_time
\* both empty.
C8_NeverBothEmpty ==
  \A k \in 1..Len(files["stop_times"]) :
    ~ /\ Csv(files["stop_times"][k].arrival_time) = ""
      /\ Csv(files["stop_times"][k].departure_time) = ""

\* C8 as amended: the row of a data line whose arrival and departure fields
\* are both blank has both times empty; the row of any other data line has
\* neither time empty.
C8_EmptyIffBothBlank ==
  [][\A line \in TimesDataLines :
       TimesRowWritten(line) =>
         LET row == Last(files'["stop_times"])
         IN  IF Blank(ArrivalField(line)) /\ Blank(DepartureField(line))
               THEN /\ Csv(row.arrival_time) = ""
                    /\ Csv(row.departure_time) = ""
             ELSE /\ Csv(row.arrival_time) # ""
                  /\ Csv(row.departure_time) # ""
    ]_vars

\* C8 witness: a row with both times empty was written.
C8_Witness ==
  \E k \in 1..Len(files["stop_times"]) :
    /\ Csv(files["stop_times"][k].arrival_time) = ""
    /\ Csv(files["stop_times"][k].departure_time) = ""

\* the field is four digits
FourDigits(field) == Len(field) = 4 /\ \A i \in 1..4 : IsDigit(field[i])

\* HHMM written as HH:MM:00
ClockText(field) ==
  field[1] \o field[2] \o ":" \o field[3] \o field[4] \o ":00"

\* the value a row must carry for a time field that is not blank
TimeValueIs(value, field) ==
  /\ value = get_gtfs_time(parse_time(field))
  /\ FourDigits(field) => Csv(value) = ClockText(field)

\* C9: the row of a data line with only an arrival time has that time in
\* both fields, the row of a data line with only a departure time has that
\* time in both fields, and with both times each field has its own.
C9_OneTimeFillsBoth ==
  [][\A line \in TimesDataLines :
       TimesRowWritten(line) =>
         LET row == Last(files'["stop_times"])
             a == ArrivalField(line)
             d == DepartureField(line)
         IN  /\ (~Blank(a) /\ Blank(d)) =>
                  /\ row.arrival_time = row.departure_time
                  /\ TimeValueIs(row.arrival_time, a)
             /\ (Blank(a) /\ ~Blank(d)) =>
                  /\ row.arrival_time = row.departure_time
                  /\ TimeValueIs(row.departure_time, d)
             /\ (~Blank(a) /\ ~Blank(d)) =>
                  /\ TimeValueIs(row.arrival_time, a)
                  /\ TimeValueIs(row.departure_time, d)
    ]_vars

\* C9 witness: a row of an arrival-only line (06:35 is only ever an
\* arrival) and a row of a departure-only line (06:40 is only ever a
\* departure), each with the one time in both fields.
C9_Witness ==
  /\ Len(files["stop_times"]) = 2
  /\ Csv(files["stop_times"][1].arrival_time) = "06:35:00"
  /\ Csv(files["stop_times"][1].departure_time) = "06:35:00"
  /\ Csv(files["stop_times"][2].arrival_time) = "06:40:00"
  /\ Csv(files["stop_times"][2].departure_time) = "06:40:00"

(***************************************************************************)
(* The calendar emission over service ids that include 0: the run up to    *)
(* the end of write_service_dates, over two periods and the bitfeld lines  *)
(* of the services 0, 1 and 2.                                             *)
(***************************************************************************)
ServicePeriods == {<<DateText(0), DateText(0)>>, <<DateText(0), DateText(1)>>}

ServiceBitfeldLines ==
  {NumText(id, 6) \o h : id \in 0..2, h \in {<<"C", "0">>, <<"4", "0">>}}

NextServices ==
  \/ make_gtfs_files
  \/ \E data \in ServicePeriods : parse_eckdaten(data)
  \/ write_agency
  \/ \E line \in ServiceBitfeldLines : parse_bitfeld(line)
  \/ write_service
  \/ write_service_dates

SpecServices == Init /\ [][NextServices]_vars

\* write_service has run
CalendarEmitted ==
  pc \in {"service_dates", "bfkoord", "bahnhof", "fplan", "done"}

\* the calendar.txt rows whose service_id is written as this text
CalendarRowsOf(text) ==
  {k \in 1..Len(files["calendar"]) :
     Csv(files["calendar"][k].service_id) = text}

\* a row with all seven weekday flags 1 for the whole period
FullWeek(row) ==
  /\ \A day \in {"monday", "tuesday", "wednesday", "thursday", "friday",
                  "saturday", "sunday"} : Csv(row[day]) = "1"
  /\ Csv(row.start_date) = FormatYMD(start)
  /\ Csv(row.end_date) = FormatYMD(end)

\* every calendar row is a full-week row of a known service id
CalendarRowsKnown ==
  \A k \in 1..Len(files["calendar"]) :
    /\ FullWeek(files["calendar"][k])
    /\ \E id \in DOMAIN services \cup {0} :
         Csv(files["calendar"][k].service_id) = StrOfNat(id)

\* C11 as claimed: once the calendar is emitted, every known service id,
\* the default 0 included, has exactly one calendar row, a full-week row
\* over the period, whatever the calendar file held.
C11_OneCalendarRowPerServiceId ==
  CalendarEmitted =>
    /\ \A id \in DOMAIN services \cup {0} :
         Cardinality(CalendarRowsOf(StrOfNat(id))) = 1
    /\ CalendarRowsKnown

\* C11 as amended: the calendar emission writes a full-week row for the
\* default service 0 first, whether or not a trip references it, and then
\* one full-week row per service id of the calendar file; a service id
\* other than 0 has exactly one row, and 0 has one row, or two when the
\* calendar file has a line for service 0; no row is written before.
C11_CalendarRows ==
  /\ pc \in {"create", "eckdaten", "agency", "bitfeld"} =>
       files["calendar"] = <<>>
  /\ CalendarEmitted =>
       /\ Len(files["calendar"]) >= 1
       /\ files["calendar"][1].service_id = PyStr("0")
       /\ \A id \in DOMAIN services \cup {0} :
            Cardinality(CalendarRowsOf(StrOfNat(id)))
              = IF id = 0 /\ 0 \in DOMAIN services THEN 2 ELSE 1
       /\ CalendarRowsKnown

\* C11 witness: the calendar file had lines for the services 0 and 1; the
\* emission wrote two rows for 0 and one for 1.
C11_Witness ==
  /\ CalendarEmitted
  /\ {0, 1} \subseteq DOMAIN services
  /\ Cardinality(CalendarRowsOf("0")) = 2
  /\ Cardinality(CalendarRowsOf("1")) = 1

(***************************************************************************)
(* The run from before the construction of the converter, over projection  *)
(* names that resolve and one that does not, with one stop and one trip.   *)
(***************************************************************************)
ProjectionNames ==
  {None, PyStr("utm"), PyStr("gk_cologne"), PyStr("+proj=latlong"),
   PyStr("nonsense")}

ConstructDataLines == {DataLine(1, <<"0", "6", "3", "5">>, NoTime)}

NextConstruct ==
  \/ \E name \in ProjectionNames : construct(name)
  \/ make_gtfs_files
  \/ \E data \in SchedulePeriods : parse_eckdaten(data)
  \/ write_agency
  \/ \E line \in ScheduleBitfeldLines : parse_bitfeld(line)
  \/ write_service
  \/ write_service_dates
  \/ \E line \in TimesKoordLines : parse_bfkoord(line)
  \/ \E line \in TimesBahnhofLines : parse_bahnhof(line)
  \/ end_of_file
  \/ fplan_comment(CommentLine)
  \/ \E line \in TimesMetaLines : fplan_meta(line)
  \/ \E line \in ConstructDataLines : fplan_data(line)

SpecConstruct == Start /\ [][NextConstruct]_vars

\* nothing has been read from an input file and no row has been written
NothingReadOrWritten ==
  /\ \A t \in DOMAIN files : files[t] = <<>>
  /\ start = -1 /\ end = -1
  /\ bitfeld = EmptyDict /\ services = EmptyDict /\ stops = EmptyDict
  /\ agency_id = None
  /\ prev = "none"

\* C12: the construction fails exactly for a projection name that cannot
\* be resolved; the failure of an unresolved name happens in the
\* construction and nowhere later, with nothing read and nothing written;
\* a run that gets past the construction has a projection that resolved.
C12_UnresolvedProjectionFailsFirst ==
  [][/\ \A name \in ProjectionNames :
          construct(name) =>
            IF get_projector_ok(name) THEN pc' = "create" /\ err' = ""
            ELSE /\ pc' = "aborted"
                 /\ err' = "RuntimeError"
                 /\ NothingReadOrWritten'
     /\ (err = "" /\ err' = "RuntimeError") =>
          pc = "new" /\ NothingReadOrWritten /\ NothingReadOrWritten'
     /\ pc' \notin {"new", "aborted"} => get_projector_ok(projection')
    ]_vars

\* C12 witness: the run was aborted by the construction, and nothing has
\* been read or written.
C12_Witness ==
  /\ pc = "aborted"
  /\ err = "RuntimeError"
  /\ NothingReadOrWritten

(***************************************************************************)
(* The whole run with one stop and meta blocks made of Z, G, L, A and R    *)
(* lines.                                                                  *)
(***************************************************************************)
\* an A line: columns 4-5 sub-type, 7-13 and 15-21 stop range, 23-28
\* bitfield number
ALine(code, number) ==
  <<"*", "A", " ">> \o code \o <<" ">> \o NumText(1, 7) \o <<" ">>
    \o NumText(1, 7) \o <<" ">> \o number

RLine(direction) == <<"*", "R", " ">> \o direction

BlockMetaLines ==
  {ZLine(1), GLine, LLine(<<"1", "0", "0">>),
   ALine(<<"V", "E">>, NumText(1, 6)), RLine(<<"1">>)}

NextBlocks ==
  \/ make_gtfs_files
  \/ \E data \in SchedulePeriods : parse_eckdaten(data)
  \/ write_agency
  \/ \E line \in ScheduleBitfeldLines : parse_bitfeld(line)
  \/ write_service
  \/ write_service_dates
  \/ \E line \in TimesKoordLines : parse_bfkoord(line)
  \/ \E line \in TimesBahnhofLines : parse_bahnhof(line)
  \/ end_of_file
  \/ fplan_comment(CommentLine)
  \/ \E line \in BlockMetaLines : fplan_meta(line)
  \/ \E line \in ConstructDataLines : fplan_data(line)

SpecBlocks == Init /\ [][NextBlocks]_vars

\* a data line of the SpecBlocks schedule is read
BlockDataStep == \E line \in ConstructDataLines : fplan_data(line)

\* C13: a meta line that follows a data line leaves only its own fields in
\* the accumulator, a meta line that follows a meta line (or starts the
\* file) merges its fields into it, and a data line leaves it as it is; the
\* trips row a data line writes has its trip id, route id, service id and
\* direction from the accumulator, hence from the meta lines read since
\* the previous data block, with the defaults for the fields they lack.
C13_MetaIsolation ==
  [][/\ \A line \in BlockMetaLines :
          fplan_meta(line) =>
            meta' = Update(IF prev = "data" THEN EmptyDict ELSE meta,
                           parse_fplan_meta(line))
     /\ BlockDataStep => meta' = meta
     /\ (BlockDataStep /\ Len(files'["trips"]) = Len(files["trips"]) + 1) =>
          LET row == Last(files'["trips"])
          IN  /\ prev # "data"
              /\ row.trip_id = meta["service_number"]
              /\ row.route_id
                   = IF "line_number" \in DOMAIN meta THEN meta["line_number"]
                     ELSE PyInt(route_counter')
              /\ Csv(row.service_id)
                   = IF "bitfield_number" \in DOMAIN meta
                       THEN Csv(meta["bitfield_number"]) ELSE "0"
              /\ row.direction_id
                   = IF "direction" \in DOMAIN meta THEN meta["direction"]
                     ELSE PyStr("0")
    ]_vars

\* C13 witness: a trip with line number 100, service 1 and direction 1,
\* then a trip whose meta block has none of the three.
C13_Witness ==
  /\ Len(files["trips"]) = 2
  /\ files["trips"][1].route_id = PyStr("100")
  /\ Csv(files["trips"][1].service_id) = "1"
  /\ Csv(files["trips"][1].direction_id) = "1"
  /\ files["trips"][2].route_id = PyInt(1)
  /\ Csv(files["trips"][2].service_id) = "0"
  /\ Csv(files["trips"][2].direction_id) = "0"
  /\ DOMAIN meta
       = {"service_number", "administration", "number_intervals",
          "time_offset", "mean_of_transport"}

\* C14: reading a comment line changes nothing but the position in the
\* file: the parser state, the accumulator, the sequence counter, the
\* current route and trip id, the route counter, the registries and the
\* tables are as before, and the run goes on.
C14_CommentChangesNothing ==
  [][(~commented /\ commented') =>
       UNCHANGED <<pc, err, files, agency_id, start, end, services,
                   projection, route_counter, routes, stops, state, meta,
                   stop_sequence, route_id, trip_id>>
    ]_vars

\* C14 witness: a comment line was read in state DATA, after a trip's
\* first data line, with a filled accumulator.
C14_Witness ==
  /\ commented
  /\ pc = "fplan"
  /\ state = "data"
  /\ stop_sequence = 1
  /\ Len(files["stop_times"]) = 1
  /\ meta # EmptyDict

(***************************************************************************)
(* The whole run over a period of one day and one of two days, with one    *)
(* service, one stop and one trip, comment lines included.                 *)
(***************************************************************************)
\* service 1 with the payload bits 1110 0000: 2 guard bits, then one active
\* day
OrderBitfeldLines == {NumText(1, 6) \o <<"E", "0">>}

NextOrder ==
  \/ make_gtfs_files
  \/ \E data \in ServicePeriods : parse_eckdaten(data)
  \/ write_agency
  \/ \E line \in OrderBitfeldLines : parse_bitfeld(line)
  \/ write_service
  \/ write_service_dates
  \/ \E line \in TimesKoordLines : parse_bfkoord(line)
  \/ \E line \in TimesBahnhofLines : parse_bahnhof(line)
  \/ end_of_file
  \/ fplan_comment(CommentLine)
  \/ \E line \in TimesMetaLines : fplan_meta(line)
  \/ \E line \in ConstructDataLines : fplan_data(line)

SpecOrder == Init /\ [][NextOrder]_vars

\* the period has been read
PeriodResolved == start # -1 /\ end # -1

\* the calendar and calendar_dates tables hold every row the calendar map
\* gives rise to
CalendarWritten ==
  /\ Len(files["calendar"]) = 1 + Cardinality(DOMAIN services)
  /\ \A id \in DOMAIN services :
       Cardinality({k \in 1..Len(files["calendar_dates"]) :
                      files["calendar_dates"][k].service_id = PyInt(id)})
         = Cardinality({i \in 1..Len(services[id]) : services[id][i]})

\* the coordinates and names of the stop registry
StopFields ==
  {<<p[1], p[2], stops[p[1]][p[2]]>> :
     p \in {q \in (DOMAIN stops) \X {"lat", "lon", "name", "authority"} :
              q[2] \in DOMAIN stops[q[1]]}}

\* no line of the schedule has been read and no row of its tables written
ScheduleUntouched ==
  /\ prev = "none" /\ ~commented
  /\ \A t \in {"routes", "trips", "stops", "stop_times"} : files[t] = <<>>

\* C15: the calendar map changes only once the period is resolved and
\* before any calendar row is written; calendar rows are written only
\* before any stop record is ingested; a stop record is ingested only with
\* every calendar and calendar_dates row written and before the schedule
\* is touched; and a schedule line is read or a routes, trips, stops or
\* stop_times row written only in the schedule stage, with the period, the
\* calendar map, the calendar tables and the stops' coordinates and names
\* left as they are.
C15_PipelineOrder ==
  [][/\ services' # services =>
          /\ PeriodResolved /\ start' = start /\ end' = end
          /\ files["calendar"] = <<>> /\ files["calendar_dates"] = <<>>
          /\ stops = EmptyDict /\ ScheduleUntouched /\ ScheduleUntouched'
     /\ (\/ files'["calendar"] # files["calendar"]
         \/ files'["calendar_dates"] # files["calendar_dates"]) =>
          /\ PeriodResolved /\ services' = services
          /\ stops = EmptyDict /\ stops' = EmptyDict
          /\ ScheduleUntouched /\ ScheduleUntouched'
     /\ StopFields' # StopFields =>
          /\ PeriodResolved /\ services' = services
          /\ CalendarWritten /\ CalendarWritten'
          /\ ScheduleUntouched /\ ScheduleUntouched'
     /\ (ScheduleUntouched /\ ~ScheduleUntouched') =>
          /\ pc = "fplan"
          /\ PeriodResolved /\ CalendarWritten
     /\ ~ScheduleUntouched' =>
          /\ start' = start /\ end' = end /\ services' = services
          /\ files'["calendar"] = files["calendar"]
          /\ files'["calendar_dates"] = files["calendar_dates"]
          /\ StopFields' = StopFields
    ]_vars

\* C15 witness: the run has ended with a service of one active day, a
\* stop and a trip: every table has a row.
C15_Witness ==
  /\ pc = "done"
  /\ \A t \in DOMAIN files : files[t] # <<>>

\* the stop has been emitted
Done(id) == id \in DOMAIN stops /\ Get(stops[id], "done", None) = True

\* C16: the record of a stop that has been emitted stays as it is, with its
\* name, authority, latitude, longitude and its done flag, in every later
\* step; and once the first stops row is written no coordinates or names
\* are merged into any record.
C16_EmittedStopImmutable ==
  [][/\ \A id \in DOMAIN stops :
          Done(id) => id \in DOMAIN stops' /\ stops'[id] = stops[id]
     /\ files["stops"] # <<>> => StopFields' = StopFields
    ]_vars

\* C16 witness: a stop was emitted and then referenced again by a second
\* data line.
C16_Witness ==
  \E id \in DOMAIN stops :
    /\ Done(id)
    /\ {"name", "authority", "lat", "lon"} \subseteq DOMAIN stops[id]
    /\ Len(files["stop_times"]) = 2
    /\ files["stop_times"][1].stop_id = PyInt(id)
    /\ files["stop_times"][2].stop_id = PyInt(id)

\* C17 as claimed: the trips table has at most one row per trip id, also
\* when Z lines repeat a service number.
C17_OneTripRowPerTripId ==
  \A i, j \in 1..Len(files["trips"]) :
    files["trips"][i].trip_id = files["trips"][j].trip_id => i = j

\* the trips rows of a table with this trip id
TripRowsOf(table, tid) == {k \in 1..Len(table) : table[k].trip_id = tid}

\* C17 as amended: trip ids are not deduplicated: the first data line of
\* every data block adds one trips row with the service number of the
\* block's Z line as trip id, whether or not the table already has rows
\* with that trip id; no other line adds a trips row.
C17_TripRowPerBlock ==
  [][/\ (DataStep /\ prev # "data" /\ pc' # "aborted") =>
          /\ "service_number" \in DOMAIN meta
          /\ Len(files'["trips"]) = Len(files["trips"]) + 1
          /\ Cardinality(TripRowsOf(files'["trips"], meta["service_number"]))
               = Cardinality(TripRowsOf(files["trips"],
                                        meta["service_number"])) + 1
     /\ ~(DataStep /\ prev # "data") => files'["trips"] = files["trips"]
    ]_vars

\* C17 witness: two blocks with the same service number and different
\* line numbers: two trips rows with one trip id.
C17_Witness ==
  /\ Len(files["trips"]) = 2
  /\ files["trips"][1].trip_id = files["trips"][2].trip_id
  /\ files["trips"][1].route_id # files["trips"][2].route_id

(***************************************************************************)
(* The whole run with one stop and meta blocks made of Z, G, A and I       *)
(* lines: A lines of sub-type VE for the services 1 and 2, an A line of    *)
(* another sub-type, and an I line.                                        *)
(***************************************************************************)
ILine == <<"*", "I", " ", "h", "i", " ">> \o NumText(2, 6)

\* the A lines of sub-type VE, by the service they refer to
VELine(n) == ALine(<<"V", "E">>, NumText(n, 6))

ServiceNumbers == {1, 2}

\* the meta lines that are no A line of sub-type VE
OtherMetaLines == {ZLine(1), GLine, ALine(<<"F", "B">>, NumText(2, 6)), ILine}

AttributeMetaLines == OtherMetaLines \cup {VELine(n) : n \in ServiceNumbers}

NextAttributes ==
  \/ make_gtfs_files
  \/ \E data \in SchedulePeriods : parse_eckdaten(data)
  \/ write_agency
  \/ \E line \in ScheduleBitfeldLines : parse_bitfeld(line)
  \/ write_service
  \/ write_service_dates
  \/ \E line \in TimesKoordLines : parse_bfkoord(line)
  \/ \E line \in TimesBahnhofLines : parse_bahnhof(line)
  \/ end_of_file
  \/ \E line \in AttributeMetaLines : fplan_meta(line)
  \/ \E line \in ConstructDataLines : fplan_data(line)

SpecAttributes == Init /\ [][NextAttributes]_vars

\* the service reference of the meta block read so far: 0 for none
BlockService ==
  IF "bitfield_number" \in DOMAIN meta THEN meta["bitfield_number"]
  ELSE PyInt(0)

\* C18: an A line of sub-type VE makes its reference number, without the
\* leading zeros, the service of the block; any other meta line leaves the
\* service of the block as it is, or at 0 when it is the first line of the
\* block; and the trips row of the block is written with that service, so
\* with "0" when the block has no A line of sub-type VE and else with the
\* number of the last one.
C18_TripServiceId ==
  [][/\ \A n \in ServiceNumbers :
          fplan_meta(VELine(n)) => BlockService' = PyInt(n)
     /\ \A line \in OtherMetaLines :
          fplan_meta(line) =>
            BlockService' = IF prev = "meta" THEN BlockService ELSE PyInt(0)
     /\ (BlockDataStep /\ Len(files'["trips"]) = Len(files["trips"]) + 1) =>
          /\ BlockService' = BlockService
          /\ Last(files'["trips"]).service_id = PyStr(Csv(BlockService))
          /\ Csv(BlockService) \in {"0", "1", "2"}
    ]_vars

\* C18 witness: a trip of a block without a VE line, then a trip of a block
\* whose last VE line names service 1, which is written as the calendar
\* table writes that service.
C18_Witness ==
  /\ Len(files["trips"]) = 2
  /\ Csv(files["trips"][1].service_id) = "0"
  /\ Csv(files["trips"][2].service_id) = "1"
  /\ \E k \in 1..Len(files["calendar"]) :
       files["calendar"][k].service_id = files["trips"][2].service_id
  /\ 1 \in DOMAIN services

\* C19: in every state of a run, aborted runs included, every trips row
\* has the route id of a routes row, and every stop_times row has the trip
\* id of a trips row and the stop id of a stops row: a row is written only
\* after the rows it references.
C19_ReferencedRowsExist ==
  /\ \A k \in 1..Len(files["trips"]) :
       \E i \in 1..Len(files["routes"]) :
         files["routes"][i].route_id = files["trips"][k].route_id
  /\ \A k \in 1..Len(files["stop_times"]) :
       /\ \E i \in 1..Len(files["trips"]) :
            files["trips"][i].trip_id = files["stop_times"][k].trip_id
       /\ \E i \in 1..Len(files["stops"]) :
            files["stops"][i].stop_id = files["stop_times"][k].stop_id

\* C19 witness: two trips with routes, trip ids and stops of their own.
C19_Witness ==
  /\ Len(files["routes"]) = 2 /\ Len(files["trips"]) = 2
  /\ Len(files["stops"]) = 2 /\ Len(files["stop_times"]) = 2
  /\ files["trips"][1].trip_id # files["trips"][2].trip_id
  /\ files["trips"][1].route_id # files["trips"][2].route_id
  /\ files["stop_times"][1].stop_id # files["stop_times"][2].stop_id

\* the record of the stop lacks a name or a coordinate
Incomplete(id) == ~({"name", "lat", "lon"} \subseteq DOMAIN Entry(stops, id))

\* the rows of every table before the step are still there after it, in
\* place
RowsRemain ==
  \A t \in Tables :
    /\ Len(files[t]) <= Len(files'[t])
    /\ SubSeq(files'[t], 1, Len(files[t])) = files[t]

\* C20: a data line whose stop id has a record without a name or without
\* coordinates (or no record at all) aborts the run with a KeyError: the
\* step writes no stops row and no stop_times row, the stop is not marked
\* done, the rows written before remain, and no step of an aborted run
\* changes any table.
C20_IncompleteStopAborts ==
  [][(\A line \in DataLines :
        (fplan_data(line) /\ Incomplete(parse_schedule(line).stop_id)) =>
          /\ pc' = "aborted" /\ err' = "KeyError"
          /\ files'["stops"] = files["stops"]
          /\ files'["stop_times"] = files["stop_times"]
          /\ Get(Entry(stops', parse_schedule(line).stop_id),
                 "done", None) # True
          /\ RowsRemain)
     /\ (pc = "aborted" => files' = files)]_vars

\* C20 witness: the second trip's first data line named a stop id that no
\* stop file had; its routes and trips rows are written, and the run is
\* aborted with one stops row and one stop_times row, those of the first
\* trip.
C20_Witness ==
  /\ pc = "aborted" /\ err = "KeyError"
  /\ Len(files["routes"]) = 2 /\ Len(files["trips"]) = 2
  /\ Len(files["stops"]) = 1 /\ Len(files["stop_times"]) = 1
  /\ \E id \in DOMAIN stops : DOMAIN stops[id] = {}

====
